---------------------------- MODULE Spec2Model ----------------------------
(***************************************************************************)
(* The K44 S-box service of src/main.py: GF(2^8) arithmetic, the affine    *)
(* transform, S-box generation, and the three request handlers             *)
(* (run_analysis, encrypt_test, decrypt_test) reading and replacing the    *)
(* module globals CURRENT_SBOX / CURRENT_INV_SBOX.                         *)
(*                                                                         *)
(* Python lists are modelled as sequences: list[k] is seq[k + 1].          *)
(* Python strings are sequences of one-character strings.                  *)
(***************************************************************************)
EXTENDS Integers, Sequences, FiniteSets, TLC

VARIABLES
    CURRENT_SBOX,       \* main.py:23  the global substitution table
    CURRENT_INV_SBOX,   \* main.py:24  the global inverse table
    phase,              \* the server: "import", "startup" or "serving"
    th,                 \* per worker thread: the handler it runs, its locals
    hist,               \* what a client of the service has seen so far
    probe               \* a direct call of one of the pure functions

vars == <<CURRENT_SBOX, CURRENT_INV_SBOX, phase, th, hist, probe>>

---------------------------------------------------------------------------
(* Bounds of the model *)

\* Worker threads serving requests at the same time.
NumThreads == 2

\* Preemption points inside one run of the inverse-table fill loop
\* (main.py:80-81, 108-109): the 256 iterations run in FillChunks slices,
\* and other threads may run between two slices.
FillChunks == 2

---------------------------------------------------------------------------
(* Program constants *)

K44_MATRIX == <<87, 171, 213, 234, 117, 186, 93, 174>>
K44_CONST == 99

\* range(256), [0] * 256
TableSize == 256

\* 0x11B, the reduction polynomial of gf_mult
Poly == 283

Byte == 0 .. 255

---------------------------------------------------------------------------
(* Python's integer operators on non-negative integers *)

\* a ^ b and a & b, bit by bit.
RECURSIVE XorBits(_, _)
XorBits(a, b) ==
    IF a = 0 THEN b
    ELSE IF b = 0 THEN a
    ELSE (((a % 2) + (b % 2)) % 2) + 2 * XorBits(a \div 2, b \div 2)

RECURSIVE AndBits(_, _)
AndBits(a, b) ==
    IF a = 0 \/ b = 0 THEN 0
    ELSE ((a % 2) * (b % 2)) + 2 * AndBits(a \div 2, b \div 2)

\* The same operators four bits at a time, from tables computed once.
XorNibble == [x \in 0 .. 15 |-> [y \in 0 .. 15 |-> XorBits(x, y)]]
AndNibble == [x \in 0 .. 15 |-> [y \in 0 .. 15 |-> AndBits(x, y)]]

RECURSIVE BitXor(_, _)
BitXor(a, b) ==
    IF a < 16 /\ b < 16 THEN XorNibble[a][b]
    ELSE XorNibble[a % 16][b % 16] + 16 * BitXor(a \div 16, b \div 16)

RECURSIVE BitAnd(_, _)
BitAnd(a, b) ==
    IF a < 16 /\ b < 16 THEN AndNibble[a][b]
    ELSE AndNibble[a % 16][b % 16] + 16 * BitAnd(a \div 16, b \div 16)

\* (v >> j) & 1
Bit(v, j) == (v \div (2 ^ j)) % 2

---------------------------------------------------------------------------
(* MATH LOGIC, main.py:27-66 *)

\* One pass of the loop body of gf_mult (lines 31-35), n passes left.
RECURSIVE gf_mult_loop(_, _, _, _)
gf_mult_loop(p, a, b, n) ==
    IF n = 0 THEN p
    ELSE LET p1    == IF b % 2 = 1 THEN BitXor(p, a) ELSE p
             hibit == BitAnd(a, 128)
             a1    == a * 2
             a2    == IF hibit # 0 THEN BitXor(a1, Poly) ELSE a1
         IN  gf_mult_loop(p1, a2, b \div 2, n - 1)

\* gf_mult with a loop of seven rounds in place of eight: the identities
\* of C4 do not hold of it.
gf_mult_short(a, b) == BitAnd(gf_mult_loop(0, a, b, 7), 255)

gf_mult(a, b) == BitAnd(gf_mult_loop(0, a, b, 8), 255)

\* The candidates i of range(256) that pass the test of line 42.
gf_inverse_hits(byte) == {i \in 0 .. TableSize - 1 : gf_mult(byte, i) = 1}

\* gf_inverse with the line that returns: line 40 for 0, line 43 with the
\* first candidate in ascending order that passes the test, line 44 (the
\* fall-back, 0) when range(256) holds none.
gf_inverse_call(byte) ==
    IF byte = 0 THEN [line |-> 40, val |-> 0]
    ELSE LET hits == gf_inverse_hits(byte)
         IN  IF hits = {} THEN [line |-> 44, val |-> 0]
             ELSE [line |-> 43,
                   val |-> CHOOSE i \in hits : \A j \in hits : i <= j]

gf_inverse(byte) == gf_inverse_call(byte).val

\* The inner loop of apply_affine with "bit_res |= 1" in place of
\* "bit_res ^= 1": the table of C3 is no permutation with it.
RECURSIVE affine_bit_or(_, _, _)
affine_bit_or(row, byte_val, j) ==
    IF j = 8 THEN 0
    ELSE LET rest == affine_bit_or(row, byte_val, j + 1)
         IN  IF Bit(row, j) = 1 /\ Bit(byte_val, j) = 1 THEN 1 ELSE rest

\* The inner loop of apply_affine (lines 50-54): the parity of the bits of
\* byte_val selected by row, over j = 0 .. 7.
RECURSIVE affine_bit(_, _, _)
affine_bit(row, byte_val, j) ==
    IF j = 8 THEN 0
    ELSE LET rest == affine_bit(row, byte_val, j + 1)
         IN  IF Bit(row, j) = 1 /\ Bit(byte_val, j) = 1 THEN 1 - rest ELSE rest

\* The outer loop of apply_affine (lines 49-56) from output bit i on.
RECURSIVE affine_rows(_, _, _)
affine_rows(byte_val, matrix, i) ==
    IF i = 8 THEN 0
    ELSE (IF affine_bit(matrix[i + 1], byte_val, 0) = 1 THEN 2 ^ i ELSE 0)
         + affine_rows(byte_val, matrix, i + 1)

\* matrix[i] for i in range(8) raises IndexError on a matrix of fewer than
\* 8 rows (line 52); rows beyond the eighth are never read.
apply_affine_raises(matrix) == Len(matrix) < 8

apply_affine(byte_val, matrix, constant) ==
    BitXor(affine_rows(byte_val, matrix, 0), constant)

generate_sbox_raises(matrix) == apply_affine_raises(matrix)

\* gf_inverse is a pure function of its argument: its 256 values are
\* computed once and looked up by generate_sbox_logic.
gf_inverse_table == [x \in Byte |-> gf_inverse(x)]

\* sbox[x] for x in range(256) (lines 61-66).
generate_sbox_logic(matrix, constant) ==
    [k \in 1 .. TableSize |->
        apply_affine(gf_inverse_table[k - 1], matrix, constant)]

---------------------------------------------------------------------------
(* Python list indexing, main.py:81, 109, 132, 147 *)

\* list[k] is defined for -len <= k < len; a negative k counts from the end.
IndexOk(list, k) == -Len(list) <= k /\ k < Len(list)
IndexPos(list, k) == IF k < 0 THEN k + Len(list) + 1 ELSE k + 1
GetItem(list, k) == list[IndexPos(list, k)]
\* list[v] = k in place of list[k] = v, the loop of lines 80-81 writing
\* "inv[i] = val": the round trip of C2 does not hold with it.
SetItem_swapped(list, k, v) == [list EXCEPT ![IndexPos(list, v)] = k]
SetItem(list, k, v) == [list EXCEPT ![IndexPos(list, k)] = v]

\* [0] * 256
Zeros == [k \in 1 .. TableSize |-> 0]

\* The loop "for i, val in enumerate(it): inv[val] = i" (lines 80-81,
\* 108-109) from index i up to, not including, index stop. The result is
\* the list after the writes, the index reached, and whether a write
\* raised IndexError (the list then holds the writes made before it).
\* The iterations run in order; the range is halved only to keep the
\* evaluation shallow.
RECURSIVE fill_inverse(_, _, _, _)
fill_inverse(inv, it, i, stop) ==
    IF i >= stop THEN [inv |-> inv, i |-> i, exc |-> FALSE]
    ELSE IF stop = i + 1
    THEN IF IndexOk(inv, it[i + 1])
         THEN [inv |-> SetItem(inv, it[i + 1], i), i |-> i + 1, exc |-> FALSE]
         ELSE [inv |-> inv, i |-> i, exc |-> TRUE]
    ELSE LET mid   == (i + stop) \div 2
             first == fill_inverse(inv, it, i, mid)
         IN  IF first.exc THEN first
             ELSE fill_inverse(first.inv, it, mid, stop)

---------------------------------------------------------------------------
(* Hexadecimal text, main.py:118, 133, 145-146 *)

HexDigits == <<"0", "1", "2", "3", "4", "5", "6", "7",
               "8", "9", "A", "B", "C", "D", "E", "F">>

\* The digits of n >= 0 in base 16, upper case, most significant first.
RECURSIVE hex_digits(_)
hex_digits(n) ==
    IF n < 16 THEN <<HexDigits[n + 1]>>
    ELSE Append(hex_digits(n \div 16), HexDigits[(n % 16) + 1])

\* f"{x:02X}": zero-padded to a width of 2 that counts the sign.
format_02X(x) ==
    IF x >= 0
    THEN IF x < 16 THEN <<"0">> \o hex_digits(x) ELSE hex_digits(x)
    ELSE <<"-">> \o hex_digits(-x)

\* " ".join(tokens)
RECURSIVE join(_)
join(tokens) ==
    IF tokens = <<>> THEN <<>>
    ELSE IF Len(tokens) = 1 THEN tokens[1]
    ELSE tokens[1] \o <<" ">> \o join(Tail(tokens))

Whitespace == {" ", "\t", "\n"}

\* str.strip().split(): the maximal runs of non-whitespace characters.
\* cur is the run being read.
RECURSIVE split_from(_, _)
split_from(s, cur) ==
    IF s = <<>> THEN (IF cur = <<>> THEN <<>> ELSE <<cur>>)
    ELSE IF Head(s) \in Whitespace
         THEN (IF cur = <<>> THEN <<>> ELSE <<cur>>) \o split_from(Tail(s), <<>>)
         ELSE split_from(Tail(s), Append(cur, Head(s)))

split(s) == split_from(s, <<>>)

HexValue ==
    ("0" :> 0) @@ ("1" :> 1) @@ ("2" :> 2) @@ ("3" :> 3) @@ ("4" :> 4) @@
    ("5" :> 5) @@ ("6" :> 6) @@ ("7" :> 7) @@ ("8" :> 8) @@ ("9" :> 9) @@
    ("a" :> 10) @@ ("b" :> 11) @@ ("c" :> 12) @@ ("d" :> 13) @@
    ("e" :> 14) @@ ("f" :> 15) @@
    ("A" :> 10) @@ ("B" :> 11) @@ ("C" :> 12) @@ ("D" :> 13) @@
    ("E" :> 14) @@ ("F" :> 15)

\* The digit part of int(h, 16): hex digits, with single underscores allowed
\* between two digits (and right after a 0x prefix).
RECURSIVE digits_ok(_, _)
digits_ok(s, after_digit) ==
    IF s = <<>> THEN after_digit
    ELSE IF Head(s) = "_" THEN after_digit /\ digits_ok(Tail(s), FALSE)
    ELSE Head(s) \in DOMAIN HexValue /\ digits_ok(Tail(s), TRUE)

RECURSIVE digits_value(_, _)
digits_value(s, acc) ==
    IF s = <<>> THEN acc
    ELSE IF Head(s) = "_" THEN digits_value(Tail(s), acc)
    ELSE digits_value(Tail(s), 16 * acc + HexValue[Head(s)])

\* int(h, 16) of a token without whitespace: an optional sign, an optional
\* 0x / 0X prefix, then the digits. exc is TRUE when int raises ValueError.
int16(h) ==
    LET signed == h # <<>> /\ Head(h) \in {"+", "-"}
        body   == IF signed THEN Tail(h) ELSE h
        prefix == Len(body) >= 2 /\ body[1] = "0" /\ body[2] \in {"x", "X"}
        digits == IF prefix THEN Tail(Tail(body)) ELSE body
        ok     == IF prefix /\ digits # <<>> /\ Head(digits) = "_"
                  THEN digits_ok(Tail(digits), FALSE)
                  ELSE digits_ok(digits, FALSE)
        mag    == digits_value(digits, 0)
    IN  IF ~ok THEN [exc |-> TRUE, val |-> 0]
        ELSE [exc |-> FALSE,
              val |-> IF signed /\ Head(h) = "-" THEN -mag ELSE mag]

\* [int(h, 16) for h in hex_vals] (line 146): the values, or ValueError at
\* the first token int rejects.
RECURSIVE parse_tokens(_)
parse_tokens(tokens) ==
    IF tokens = <<>> THEN [exc |-> FALSE, val |-> <<>>]
    ELSE LET n    == int16(Head(tokens))
             rest == parse_tokens(Tail(tokens))
         IN  IF n.exc \/ rest.exc THEN [exc |-> TRUE, val |-> <<>>]
             ELSE [exc |-> FALSE, val |-> <<n.val>> \o rest.val]

---------------------------------------------------------------------------
(* UTF-8, main.py:131, 148. A str is a sequence of code points. *)

Surrogate(cp) == 55296 <= cp /\ cp <= 57343
Continuation(b) == 128 <= b /\ b <= 191
Cont(cp, shift) == 128 + ((cp \div shift) % 64)

\* The bytes of one code point; a lone surrogate has none (str.encode
\* raises UnicodeEncodeError).
utf8_encode_cp(cp) ==
    IF cp < 128 THEN <<cp>>
    ELSE IF cp < 2048 THEN <<192 + (cp \div 64), Cont(cp, 1)>>
    ELSE IF cp < 65536 THEN <<224 + (cp \div 4096), Cont(cp, 64), Cont(cp, 1)>>
    ELSE <<240 + (cp \div 262144), Cont(cp, 4096), Cont(cp, 64), Cont(cp, 1)>>

\* text.encode('utf-8')
RECURSIVE utf8_encode(_)
utf8_encode(text) ==
    IF text = <<>> THEN [exc |-> FALSE, val |-> <<>>]
    ELSE LET rest == utf8_encode(Tail(text))
         IN  IF Surrogate(Head(text)) \/ rest.exc
             THEN [exc |-> TRUE, val |-> <<>>]
             ELSE [exc |-> FALSE, val |-> utf8_encode_cp(Head(text)) \o rest.val]

\* The length of the well-formed UTF-8 sequence that starts b, or 0 when
\* none does (overlong forms, surrogates and values above U+10FFFF are
\* ill-formed).
utf8_seq_len(b) ==
    LET n  == Len(b)
        b1 == b[1]
        c2 == n >= 2 /\ Continuation(b[2])
        c3 == n >= 3 /\ Continuation(b[3])
        c4 == n >= 4 /\ Continuation(b[4])
    IN  IF b1 < 128 THEN 1
        ELSE IF 194 <= b1 /\ b1 <= 223 THEN (IF c2 THEN 2 ELSE 0)
        ELSE IF b1 = 224 THEN (IF c2 /\ b[2] >= 160 /\ c3 THEN 3 ELSE 0)
        ELSE IF b1 = 237 THEN (IF c2 /\ b[2] <= 159 /\ c3 THEN 3 ELSE 0)
        ELSE IF 225 <= b1 /\ b1 <= 239 THEN (IF c2 /\ c3 THEN 3 ELSE 0)
        ELSE IF b1 = 240 THEN (IF c2 /\ b[2] >= 144 /\ c3 /\ c4 THEN 4 ELSE 0)
        ELSE IF 241 <= b1 /\ b1 <= 243 THEN (IF c2 /\ c3 /\ c4 THEN 4 ELSE 0)
        ELSE IF b1 = 244 THEN (IF c2 /\ b[2] <= 143 /\ c3 /\ c4 THEN 4 ELSE 0)
        ELSE 0

\* The code point of the well-formed sequence of n bytes that starts b.
utf8_code_point(b, n) ==
    IF n = 1 THEN b[1]
    ELSE IF n = 2 THEN (b[1] - 192) * 64 + (b[2] - 128)
    ELSE IF n = 3 THEN (b[1] - 224) * 4096 + (b[2] - 128) * 64 + (b[3] - 128)
    ELSE (b[1] - 240) * 262144 + (b[2] - 128) * 4096
         + (b[3] - 128) * 64 + (b[4] - 128)

\* bytes(plain_bytes).decode('utf-8'): bytes() raises ValueError on a value
\* outside range(256), decode raises UnicodeDecodeError, a subclass of
\* ValueError, on an ill-formed sequence.
RECURSIVE utf8_decode(_)
utf8_decode(b) ==
    IF b = <<>> THEN [exc |-> FALSE, val |-> <<>>]
    ELSE LET n    == utf8_seq_len(b)
             rest == utf8_decode(SubSeq(b, n + 1, Len(b)))
         IN  IF n = 0 \/ rest.exc THEN [exc |-> TRUE, val |-> <<>>]
             ELSE [exc |-> FALSE, val |-> <<utf8_code_point(b, n)>> \o rest.val]

bytes_decode(plain_bytes) ==
    IF \E k \in 1 .. Len(plain_bytes) : plain_bytes[k] \notin Byte
    THEN [exc |-> TRUE, val |-> <<>>]
    ELSE utf8_decode(plain_bytes)

---------------------------------------------------------------------------
(* Request inputs *)

\* The affine matrix of the AES S-box: a second matrix that, like
\* K44_MATRIX, gives a bijective table.
AES_MATRIX == <<241, 227, 199, 143, 31, 62, 124, 248>>

\* A singular matrix: the table it gives is not bijective.
SINGULAR_MATRIX == <<1, 1, 2, 4, 8, 16, 32, 64>>

\* A matrix of 7 rows.
SHORT_MATRIX == <<87, 171, 213, 234, 117, 186, 93>>

\* Matrices of 8 rows and constants of one byte.
ConcurrentMatrices == {AES_MATRIX, SINGULAR_MATRIX}
WellFormedMatrices == {K44_MATRIX, AES_MATRIX, SINGULAR_MATRIX}
WellFormedConstants == {K44_CONST}

AllMatrices == WellFormedMatrices \cup {SHORT_MATRIX}
AllConstants == WellFormedConstants \cup {0, 256}

\* generate_sbox_logic on every input of the model, computed once.
sbox_memo ==
    [m \in AllMatrices |-> [c \in AllConstants |->
        IF generate_sbox_raises(m) THEN <<>> ELSE generate_sbox_logic(m, c)]]

\* "é": two bytes in UTF-8.
ConcurrentTexts == {<<233>>}
\* "", "HELLO", "hé€" and "A\ud800" (a lone surrogate).
SequentialTexts ==
    {<<>>, <<72, 69, 76, 76, 79>>, <<104, 233, 8364>>, <<65, 55296>>}

\* "34 a5"
ConcurrentCiphers == {<<"3", "4", " ", "a", "5">>}
SequentialCiphers ==
    { <<"6", "3">>,                          \* "63"
      <<" ", "3", "4", "\t", "a", "5", " ">>, \* " 34\ta5 "
      <<>>,                                   \* ""
      <<"Z", "Z">>,                           \* "ZZ"
      <<"4", "1", " ", "G", "2">>,            \* "41 G2"
      <<"1", "0", "0">>,                      \* "100"
      <<"-", "1">>,                           \* "-1"
      <<"-", "3">>,                           \* "-3"
      <<"-", "1", "0", "1">>,                 \* "-101"
      <<"0", "x", "6", "3">>,                 \* "0x63"
      <<"0", "0">>,                           \* "00"
      <<"4", "_", "1">> }                     \* "4_1"

---------------------------------------------------------------------------
(* Threads *)

Threads == 1 .. NumThreads

\* A thread that serves nothing. fn is the endpoint being served, pc the
\* line it is about to execute, ret the line startup_event returns to when
\* an endpoint called it; the other fields are the locals of the handlers
\* and the response.
Idle ==
    [fn |-> "idle", pc |-> "", ret |-> "",
     matrix |-> <<>>, constant |-> 0, text |-> <<>>, ciphertext |-> <<>>,
     it |-> <<>>, i |-> 0, bytes |-> <<>>, out |-> <<>>,
     status |-> 0, body |-> <<>>]

\* The response of a handler: an HTTP status and a body. The locals of the
\* loop over the table are dropped.
Respond(r, status, body) ==
    [r EXCEPT !.pc = "done", !.status = status, !.body = body,
              !.it = <<>>, !.i = 0]

\* The iterations of the fill loop that run before the next preemption
\* point: up to the end of the slice that holds index i.
ChunkLen == (TableSize + FillChunks - 1) \div FillChunks
SliceStop(i) ==
    LET stop == ((i \div ChunkLen) + 1) * ChunkLen
    IN  IF stop > TableSize THEN TableSize ELSE stop

---------------------------------------------------------------------------
(* startup_event, main.py:69-83 *)

\* The lifespan startup hook, run on thread 1 before any request is served.
Boot ==
    /\ phase = "import"
    /\ phase' = "startup"
    /\ th' = [th EXCEPT ![1] = [Idle EXCEPT !.fn = "startup_event", !.pc = "L76"]]
    /\ UNCHANGED <<CURRENT_SBOX, CURRENT_INV_SBOX>>

\* line 76
startup_L76(t) ==
    /\ th[t].pc = "L76"
    /\ CURRENT_SBOX' = sbox_memo[K44_MATRIX][K44_CONST]
    /\ th' = [th EXCEPT ![t].pc = "L79"]
    /\ UNCHANGED <<CURRENT_INV_SBOX, phase>>

\* line 79
startup_L79(t) ==
    /\ th[t].pc = "L79"
    /\ CURRENT_INV_SBOX' = Zeros
    /\ th' = [th EXCEPT ![t].pc = "L80"]
    /\ UNCHANGED <<CURRENT_SBOX, phase>>

\* line 80: enumerate(CURRENT_SBOX) reads the global once
startup_L80(t) ==
    /\ th[t].pc = "L80"
    /\ th' = [th EXCEPT ![t].pc = "L81", ![t].it = CURRENT_SBOX, ![t].i = 0]
    /\ UNCHANGED <<CURRENT_SBOX, CURRENT_INV_SBOX, phase>>

\* line 81, one slice of iterations; each one looks the global
\* CURRENT_INV_SBOX up anew. After the last one startup_event returns (line
\* 83): to the endpoint that called it, or to the server, which then
\* serves. An IndexError leaves startup_event and, raised outside the
\* endpoint's try block, ends the request with status 500.
startup_L81(t) ==
    /\ th[t].pc = "L81"
    /\ LET r == fill_inverse(CURRENT_INV_SBOX, th[t].it, th[t].i,
                             SliceStop(th[t].i))
       IN  /\ CURRENT_INV_SBOX' = r.inv
           /\ IF r.exc
              THEN /\ th' = [th EXCEPT ![t] = Respond(@, 500, <<>>)]
                   /\ UNCHANGED phase
              ELSE IF r.i < TableSize
              THEN /\ th' = [th EXCEPT ![t].i = r.i]
                   /\ UNCHANGED phase
              ELSE IF th[t].fn = "startup_event"
              THEN /\ th' = [th EXCEPT ![t] = Idle]
                   /\ phase' = "serving"
              ELSE /\ th' = [th EXCEPT ![t].pc = th[t].ret,
                                       ![t].it = <<>>, ![t].i = 0]
                   /\ UNCHANGED phase
    /\ UNCHANGED CURRENT_SBOX

---------------------------------------------------------------------------
(* run_analysis, main.py:97-120 *)

\* A request arrives on an idle thread; the server serves requests once its
\* startup is over, or when it was started without running it.
Accept(t) == phase # "startup" /\ th[t].fn = "idle"

run_analysis(t, matrices, constants) ==
    /\ Accept(t)
    /\ \E m \in matrices, c \in constants :
          th' = [th EXCEPT ![t] = [Idle EXCEPT !.fn = "run_analysis",
                     !.pc = "L105", !.matrix = m, !.constant = c]]
    /\ phase' = "serving"
    /\ UNCHANGED <<CURRENT_SBOX, CURRENT_INV_SBOX>>

\* line 105: the table is built first, then bound to the global; an
\* IndexError of apply_affine reaches the framework (status 500).
run_L105(t) ==
    /\ th[t].pc = "L105"
    /\ IF generate_sbox_raises(th[t].matrix)
       THEN /\ th' = [th EXCEPT ![t] = Respond(@, 500, <<>>)]
            /\ UNCHANGED CURRENT_SBOX
       ELSE /\ CURRENT_SBOX' = sbox_memo[th[t].matrix][th[t].constant]
            /\ th' = [th EXCEPT ![t].pc = "L107"]
    /\ UNCHANGED <<CURRENT_INV_SBOX, phase>>

\* line 107
run_L107(t) ==
    /\ th[t].pc = "L107"
    /\ CURRENT_INV_SBOX' = Zeros
    /\ th' = [th EXCEPT ![t].pc = "L108"]
    /\ UNCHANGED <<CURRENT_SBOX, phase>>

\* line 108: enumerate(CURRENT_SBOX) reads the global once
run_L108(t) ==
    /\ th[t].pc = "L108"
    /\ th' = [th EXCEPT ![t].pc = "L109", ![t].it = CURRENT_SBOX, ![t].i = 0]
    /\ UNCHANGED <<CURRENT_SBOX, CURRENT_INV_SBOX, phase>>

\* line 109, one slice of iterations
run_L109(t) ==
    /\ th[t].pc = "L109"
    /\ LET r == fill_inverse(CURRENT_INV_SBOX, th[t].it, th[t].i,
                             SliceStop(th[t].i))
       IN  /\ CURRENT_INV_SBOX' = r.inv
           /\ IF r.exc
              THEN th' = [th EXCEPT ![t] = Respond(@, 500, <<>>)]
              ELSE IF r.i < TableSize
              THEN th' = [th EXCEPT ![t].i = r.i]
              ELSE th' = [th EXCEPT ![t].pc = "L118",
                                    ![t].it = <<>>, ![t].i = 0]
    /\ UNCHANGED <<CURRENT_SBOX, phase>>

\* lines 117-120: the response renders the global CURRENT_SBOX
run_L118(t) ==
    /\ th[t].pc = "L118"
    /\ th' = [th EXCEPT ![t] = Respond(@, 200,
                 [k \in 1 .. Len(CURRENT_SBOX) |-> format_02X(CURRENT_SBOX[k])])]
    /\ UNCHANGED <<CURRENT_SBOX, CURRENT_INV_SBOX, phase>>

---------------------------------------------------------------------------
(* encrypt_test, main.py:122-136 *)

encrypt_test(t, texts) ==
    /\ Accept(t)
    /\ \E x \in texts :
          th' = [th EXCEPT ![t] = [Idle EXCEPT !.fn = "encrypt_test",
                     !.pc = "L126", !.text = x]]
    /\ phase' = "serving"
    /\ UNCHANGED <<CURRENT_SBOX, CURRENT_INV_SBOX>>

\* lines 126-128: an empty table calls startup_event
enc_L126(t) ==
    /\ th[t].pc = "L126"
    /\ th' = IF CURRENT_SBOX = <<>>
             THEN [th EXCEPT ![t].pc = "L76", ![t].ret = "L131"]
             ELSE [th EXCEPT ![t].pc = "L131"]
    /\ UNCHANGED <<CURRENT_SBOX, CURRENT_INV_SBOX, phase>>

\* line 131; UnicodeEncodeError is caught by line 135 (status 500)
enc_L131(t) ==
    /\ th[t].pc = "L131"
    /\ LET b == utf8_encode(th[t].text)
       IN  th' = IF b.exc
                 THEN [th EXCEPT ![t] = Respond(@, 500, <<>>)]
                 ELSE [th EXCEPT ![t].pc = "L132", ![t].bytes = b.val,
                                 ![t].out = <<>>]
    /\ UNCHANGED <<CURRENT_SBOX, CURRENT_INV_SBOX, phase>>

\* line 132, one element of the comprehension: CURRENT_SBOX[b] looks the
\* global up anew. Lines 133-134 render the response after the last one.
enc_L132(t) ==
    /\ th[t].pc = "L132"
    /\ LET r == th[t]
           b == r.bytes[Len(r.out) + 1]
       IN  th' = IF Len(r.out) = Len(r.bytes)
                 THEN [th EXCEPT ![t] = Respond(@, 200,
                          join([k \in 1 .. Len(r.out) |-> format_02X(r.out[k])]))]
                 ELSE IF ~IndexOk(CURRENT_SBOX, b)
                 THEN [th EXCEPT ![t] = Respond(@, 500, <<>>)]
                 ELSE [th EXCEPT ![t].out = Append(@, GetItem(CURRENT_SBOX, b))]
    /\ UNCHANGED <<CURRENT_SBOX, CURRENT_INV_SBOX, phase>>

---------------------------------------------------------------------------
(* decrypt_test, main.py:138-153 *)

decrypt_test(t, ciphers) ==
    /\ Accept(t)
    /\ \E x \in ciphers :
          th' = [th EXCEPT ![t] = [Idle EXCEPT !.fn = "decrypt_test",
                     !.pc = "L141", !.ciphertext = x]]
    /\ phase' = "serving"
    /\ UNCHANGED <<CURRENT_SBOX, CURRENT_INV_SBOX>>

\* lines 141-142
dec_L141(t) ==
    /\ th[t].pc = "L141"
    /\ th' = IF CURRENT_INV_SBOX = <<>>
             THEN [th EXCEPT ![t].pc = "L76", ![t].ret = "L145"]
             ELSE [th EXCEPT ![t].pc = "L145"]
    /\ UNCHANGED <<CURRENT_SBOX, CURRENT_INV_SBOX, phase>>

\* lines 145-146; the ValueError of int is caught by line 150 (status 400)
dec_L145(t) ==
    /\ th[t].pc = "L145"
    /\ LET b == parse_tokens(split(th[t].ciphertext))
       IN  th' = IF b.exc
                 THEN [th EXCEPT ![t] = Respond(@, 400, <<>>)]
                 ELSE [th EXCEPT ![t].pc = "L147", ![t].bytes = b.val,
                                 ![t].out = <<>>]
    /\ UNCHANGED <<CURRENT_SBOX, CURRENT_INV_SBOX, phase>>

\* line 147, one element of the comprehension: CURRENT_INV_SBOX[b] looks
\* the global up anew; IndexError is caught by line 152 (status 500).
\* Line 148 decodes after the last one: ValueError, UnicodeDecodeError
\* included, is caught by line 150 (status 400).
dec_L147(t) ==
    /\ th[t].pc = "L147"
    /\ LET r == th[t]
           b == r.bytes[Len(r.out) + 1]
           d == bytes_decode(r.out)
       IN  th' = IF Len(r.out) = Len(r.bytes)
                 THEN IF d.exc
                      THEN [th EXCEPT ![t] = Respond(@, 400, <<>>)]
                      ELSE [th EXCEPT ![t] = Respond(@, 200, d.val)]
                 ELSE IF ~IndexOk(CURRENT_INV_SBOX, b)
                 THEN [th EXCEPT ![t] = Respond(@, 500, <<>>)]
                 ELSE [th EXCEPT ![t].out = Append(@, GetItem(CURRENT_INV_SBOX, b))]
    /\ UNCHANGED <<CURRENT_SBOX, CURRENT_INV_SBOX, phase>>

\* The response is sent; the thread is free again.
Return(t) ==
    /\ th[t].pc = "done"
    /\ th' = [th EXCEPT ![t] = Idle]
    /\ UNCHANGED <<CURRENT_SBOX, CURRENT_INV_SBOX, phase>>

---------------------------------------------------------------------------
(* The service *)

NoHist ==
    [built |-> FALSE, sent |-> FALSE, text |-> <<>>, ciphertext |-> <<>>,
     before |-> <<>>]

NoProbe ==
    [fn |-> "", a |-> 0, b |-> 0, matrix |-> <<>>, constant |-> 0,
     done |-> FALSE, line |-> 0, ret |-> <<>>]

\* The state after "import main": both tables are empty lists.
Init ==
    /\ CURRENT_SBOX = <<>>
    /\ CURRENT_INV_SBOX = <<>>
    /\ phase = "import"
    /\ th = [t \in Threads |-> Idle]
    /\ hist = NoHist
    /\ probe = NoProbe

Quiet == UNCHANGED <<hist, probe>>

\* Requests with well-formed input, served by all threads at once.
Next ==
    \/ Boot /\ Quiet
    \/ \E t \in Threads :
          run_analysis(t, ConcurrentMatrices, WellFormedConstants) /\ Quiet
    \/ \E t \in Threads : encrypt_test(t, ConcurrentTexts) /\ Quiet
    \/ \E t \in Threads : decrypt_test(t, ConcurrentCiphers) /\ Quiet
    \/ \E t \in Threads : startup_L76(t) /\ Quiet
    \/ \E t \in Threads : startup_L79(t) /\ Quiet
    \/ \E t \in Threads : startup_L80(t) /\ Quiet
    \/ \E t \in Threads : startup_L81(t) /\ Quiet
    \/ \E t \in Threads : run_L105(t) /\ Quiet
    \/ \E t \in Threads : run_L107(t) /\ Quiet
    \/ \E t \in Threads : run_L108(t) /\ Quiet
    \/ \E t \in Threads : run_L109(t) /\ Quiet
    \/ \E t \in Threads : run_L118(t) /\ Quiet
    \/ \E t \in Threads : enc_L126(t) /\ Quiet
    \/ \E t \in Threads : enc_L131(t) /\ Quiet
    \/ \E t \in Threads : enc_L132(t) /\ Quiet
    \/ \E t \in Threads : dec_L141(t) /\ Quiet
    \/ \E t \in Threads : dec_L145(t) /\ Quiet
    \/ \E t \in Threads : dec_L147(t) /\ Quiet
    \/ \E t \in Threads : Return(t) /\ Quiet

Spec == Init /\ [][Next]_vars

---------------------------------------------------------------------------
(* One client, one request at a time, any input *)

\* What the client of thread 1 notes of a step: that a run_analysis has
\* replaced the table (line 105), the tables as they were when its
\* run_analysis request was accepted, and the text and the ciphertext of
\* its last successful encrypt_test.
Observe ==
    /\ probe' = probe
    /\ hist' =
         [built  |-> hist.built \/ (th[1].pc = "L105" /\ th'[1].pc = "L107"),
          before |-> IF th[1].fn = "idle" /\ th'[1].fn = "run_analysis"
                     THEN <<CURRENT_SBOX, CURRENT_INV_SBOX>>
                     ELSE hist.before,
          sent   |-> hist.sent \/ (th'[1].fn = "encrypt_test"
                                    /\ th[1].pc # "done" /\ th'[1].pc = "done"
                                    /\ th'[1].status = 200),
          text   |-> IF th'[1].fn = "encrypt_test" /\ th[1].pc # "done"
                        /\ th'[1].pc = "done" /\ th'[1].status = 200
                     THEN th'[1].text ELSE hist.text,
          ciphertext |->
                     IF th'[1].fn = "encrypt_test" /\ th[1].pc # "done"
                        /\ th'[1].pc = "done" /\ th'[1].status = 200
                     THEN th'[1].body ELSE hist.ciphertext]

\* The ciphertexts the client sends: the fixed ones, and the one its last
\* encrypt_test returned.
ClientCiphers ==
    SequentialCiphers \cup (IF hist.sent THEN {hist.ciphertext} ELSE {})

NextSeq ==
    \/ Boot /\ Observe
    \/ run_analysis(1, AllMatrices, AllConstants) /\ Observe
    \/ encrypt_test(1, SequentialTexts) /\ Observe
    \/ decrypt_test(1, ClientCiphers) /\ Observe
    \/ startup_L76(1) /\ Observe
    \/ startup_L79(1) /\ Observe
    \/ startup_L80(1) /\ Observe
    \/ startup_L81(1) /\ Observe
    \/ run_L105(1) /\ Observe
    \/ run_L107(1) /\ Observe
    \/ run_L108(1) /\ Observe
    \/ run_L109(1) /\ Observe
    \/ run_L118(1) /\ Observe
    \/ enc_L126(1) /\ Observe
    \/ enc_L131(1) /\ Observe
    \/ enc_L132(1) /\ Observe
    \/ dec_L141(1) /\ Observe
    \/ dec_L145(1) /\ Observe
    \/ dec_L147(1) /\ Observe
    \/ Return(1) /\ Observe

SpecSeq == Init /\ [][NextSeq]_vars

---------------------------------------------------------------------------
(* The pure functions called directly *)

PureCalls ==
    {[NoProbe EXCEPT !.fn = "gf_mult", !.a = a, !.b = b] :
        a \in Byte, b \in Byte}
    \cup {[NoProbe EXCEPT !.fn = "gf_inverse", !.a = a] : a \in Byte}
    \cup {[NoProbe EXCEPT !.fn = "apply_affine", !.a = a, !.matrix = m,
                          !.constant = c] :
             a \in Byte, m \in WellFormedMatrices, c \in WellFormedConstants}
    \cup {[NoProbe EXCEPT !.fn = "generate_sbox_logic", !.matrix = m,
                          !.constant = c] :
             m \in WellFormedMatrices, c \in AllConstants}

InitPure ==
    /\ CURRENT_SBOX = <<>>
    /\ CURRENT_INV_SBOX = <<>>
    /\ phase = "import"
    /\ th = [t \in Threads |-> Idle]
    /\ hist = NoHist
    /\ probe \in PureCalls

Server == <<CURRENT_SBOX, CURRENT_INV_SBOX, phase, th, hist>>

call_gf_mult ==
    /\ probe.fn = "gf_mult" /\ ~probe.done
    /\ probe' = [probe EXCEPT !.done = TRUE,
                              !.ret = <<gf_mult(probe.a, probe.b)>>]
    /\ UNCHANGED Server

call_gf_inverse ==
    /\ probe.fn = "gf_inverse" /\ ~probe.done
    /\ LET r == gf_inverse_call(probe.a)
       IN  probe' = [probe EXCEPT !.done = TRUE, !.line = r.line,
                                  !.ret = <<r.val>>]
    /\ UNCHANGED Server

call_apply_affine ==
    /\ probe.fn = "apply_affine" /\ ~probe.done
    /\ probe' = [probe EXCEPT !.done = TRUE,
                    !.ret = <<apply_affine(probe.a, probe.matrix,
                                           probe.constant)>>]
    /\ UNCHANGED Server

call_generate_sbox_logic ==
    /\ probe.fn = "generate_sbox_logic" /\ ~probe.done
    /\ probe' = [probe EXCEPT !.done = TRUE,
                    !.ret = generate_sbox_logic(probe.matrix, probe.constant)]
    /\ UNCHANGED Server

NextPure ==
    \/ call_gf_mult
    \/ call_gf_inverse
    \/ call_apply_affine
    \/ call_generate_sbox_logic

SpecPure == InitPure /\ [][NextPure]_vars

---------------------------------------------------------------------------
(* A request served alone, main.py:130-136 and 144-153 *)

\* The table startup_event builds and the inverse the fill loop derives
\* from a table when nothing else runs (lines 79-81, 107-109).
DefaultSbox == sbox_memo[K44_MATRIX][K44_CONST]
InverseOf(sbox) == fill_inverse(Zeros, sbox, 0, TableSize).inv

\* The response of encrypt_test from one table.
encrypt_result(sbox, text) ==
    LET b == utf8_encode(text)
    IN  IF b.exc \/ \E k \in 1 .. Len(b.val) : ~IndexOk(sbox, b.val[k])
        THEN [status |-> 500, body |-> <<>>]
        ELSE [status |-> 200,
              body |-> join([k \in 1 .. Len(b.val) |->
                                format_02X(GetItem(sbox, b.val[k]))])]

\* The response of decrypt_test from one inverse table.
decrypt_result(inv, ciphertext) ==
    LET b == parse_tokens(split(ciphertext))
        o == [k \in 1 .. Len(b.val) |-> GetItem(inv, b.val[k])]
    IN  IF b.exc THEN [status |-> 400, body |-> <<>>]
        ELSE IF \E k \in 1 .. Len(b.val) : ~IndexOk(inv, b.val[k])
        THEN [status |-> 500, body |-> <<>>]
        ELSE IF bytes_decode(o).exc THEN [status |-> 400, body |-> <<>>]
        ELSE [status |-> 200, body |-> bytes_decode(o).val]

\* The table of a run_analysis response: 256 tokens of f"{x:02X}".
hex_table(sbox) == [k \in 1 .. Len(sbox) |-> format_02X(sbox[k])]

---------------------------------------------------------------------------
(* Claims *)

\* Thread t finished its request in this step.
Completes(t) == th[t].pc # "done" /\ th'[t].pc = "done"

\* Thread t reads one entry of CURRENT_INV_SBOX in this step (line 147).
ReadsTable(t) ==
    /\ th[t].pc = "L147"
    /\ Len(th'[t].out) = Len(th[t].out) + 1

\* Thread u is inside the update of run_analysis: line 105 has bound the
\* new CURRENT_SBOX and the loop of lines 108-109 has not finished.
MidUpdate(u) ==
    th[u].fn = "run_analysis" /\ th[u].pc \in {"L107", "L108", "L109"}

\* C1: no decrypt_test reads an entry of the inverse table while a
\* run_analysis is between binding the new CURRENT_SBOX and completing
\* CURRENT_INV_SBOX, the pair then being the new table with an inverse that
\* is the previous one, all zeros, or partly filled.
C1_NoPartialRead ==
    [][\A t \in Threads :
          ReadsTable(t) =>
             ~(/\ \E u \in Threads \ {t} : MidUpdate(u)
               /\ CURRENT_INV_SBOX # InverseOf(CURRENT_SBOX))]_vars

\* C2: in the state startup_event produced, with no run_analysis since,
\* CURRENT_INV_SBOX[CURRENT_SBOX[x]] = x for every byte x, and decrypt_test
\* of the ciphertext that encrypt_test returned for a text returns that
\* text.
StartupLines == {"L76", "L79", "L80", "L81"}

C2_DefaultRoundTrip ==
    /\ (~hist.built /\ CURRENT_INV_SBOX # <<>>
          /\ \A t \in Threads : th[t].pc \notin StartupLines)
       => \A x \in Byte :
             GetItem(CURRENT_INV_SBOX, GetItem(CURRENT_SBOX, x)) = x
    /\ (~hist.built /\ hist.sent /\ th[1].fn = "decrypt_test"
          /\ th[1].pc = "done" /\ th[1].ciphertext = hist.ciphertext)
       => (th[1].status = 200 /\ th[1].body = hist.text)

\* "HELLO" was encrypted to "5E FB 9E 9E DE" and decrypted back.
C2_Witness ==
    /\ ~hist.built /\ hist.sent
    /\ hist.text = <<72, 69, 76, 76, 79>>
    /\ Len(hist.ciphertext) = 14
    /\ th[1].fn = "decrypt_test" /\ th[1].pc = "done"
    /\ th[1].ciphertext = hist.ciphertext
    /\ th[1].status = 200 /\ th[1].body = <<72, 69, 76, 76, 79>>
    /\ GetItem(CURRENT_INV_SBOX, GetItem(CURRENT_SBOX, 72)) = 72

\* C3: generate_sbox_logic(K44_MATRIX, K44_CONST) has 256 entries and
\* holds every value of 0 .. 255 exactly once.
C3_DefaultIsPermutation ==
    (probe.done /\ probe.fn = "generate_sbox_logic"
       /\ probe.matrix = K44_MATRIX /\ probe.constant = K44_CONST)
    => /\ Len(probe.ret) = TableSize
       /\ \A v \in Byte :
             Cardinality({k \in 1 .. Len(probe.ret) : probe.ret[k] = v}) = 1

C3_Witness ==
    /\ probe.done /\ probe.fn = "generate_sbox_logic"
    /\ probe.matrix = K44_MATRIX /\ probe.constant = K44_CONST
    /\ probe.ret[1] = 99 /\ probe.ret[2] = 52

\* C4: gf_mult(a, 0) = 0 and gf_mult(a, 1) = a for every byte a;
\* gf_inverse(0) = 0; for a in 1 .. 255 gf_inverse returns from line 43,
\* never from the fall-back of line 44, and gf_mult(a, gf_inverse(a)) = 1.
C4_FieldIdentities ==
    probe.done =>
       /\ (probe.fn = "gf_mult" /\ probe.b = 0) => probe.ret = <<0>>
       /\ (probe.fn = "gf_mult" /\ probe.b = 1) => probe.ret = <<probe.a>>
       /\ (probe.fn = "gf_inverse" /\ probe.a = 0) => probe.ret = <<0>>
       /\ (probe.fn = "gf_inverse" /\ probe.a # 0)
          => (probe.line = 43 /\ gf_mult(probe.a, probe.ret[1]) = 1)

\* gf_inverse(0x53) = 0xCA
C4_Witness ==
    /\ probe.done /\ probe.fn = "gf_inverse"
    /\ probe.a = 83 /\ probe.ret = <<202>> /\ probe.line = 43

\* A token that is not a base-16 integer in 0 .. 255.
InvalidHexByte(token) == int16(token).exc \/ int16(token).val \notin Byte

\* C5: decrypt_test of a ciphertext with a token that is not a base-16
\* byte answers status 400 ("Invalid Hex Data").
C5_BadTokenIs400 ==
    \A t \in Threads :
       (th[t].fn = "decrypt_test" /\ th[t].pc = "done"
          /\ (\E k \in 1 .. Len(split(th[t].ciphertext)) :
                 InvalidHexByte(split(th[t].ciphertext)[k])))
       => th[t].status = 400

\* C6: decrypt_test of valid hex bytes whose inverse substitution is not
\* valid UTF-8 answers status 500 ("Decryption Failed"), not 400.
C6_BadUtf8Is500 ==
    \A t \in Threads :
       (th[t].fn = "decrypt_test" /\ th[t].pc = "done"
          /\ (\A k \in 1 .. Len(split(th[t].ciphertext)) :
                 ~InvalidHexByte(split(th[t].ciphertext)[k]))
          /\ Len(th[t].out) = Len(th[t].bytes)
          /\ bytes_decode(th[t].out).exc)
       => th[t].status = 500

\* C7: a run_analysis request with well-formed input answers status 200
\* with the table of its own matrix and constant.
C7_OwnTableReturned ==
    \A t \in Threads :
       (th[t].fn = "run_analysis" /\ th[t].pc = "done")
       => /\ th[t].status = 200
          /\ th[t].body = hex_table(sbox_memo[th[t].matrix][th[t].constant])

\* C8: a request that found its table empty and called startup_event is
\* served from the default tables: it completes with the response the
\* default table and its inverse give. Only completions with the default
\* table bound and no run_analysis in progress are judged.
C8_EmergencyRegeneration ==
    [][\A t \in Threads :
          (/\ Completes(t) /\ th[t].ret # ""
           /\ CURRENT_SBOX = DefaultSbox
           /\ \A u \in Threads : th[u].fn # "run_analysis")
          => /\ th[t].fn = "encrypt_test"
                => LET r == encrypt_result(DefaultSbox, th[t].text)
                   IN  th'[t].status = r.status /\ th'[t].body = r.body
             /\ th[t].fn = "decrypt_test"
                => LET r == decrypt_result(InverseOf(DefaultSbox),
                                           th[t].ciphertext)
                   IN  th'[t].status = r.status /\ th'[t].body = r.body]_vars

\* C9: whenever no request is in progress, CURRENT_INV_SBOX is the inverse
\* the fill loop derives from the current CURRENT_SBOX.
C9_QuiescentPairConsistent ==
    (phase # "startup" /\ \A t \in Threads : th[t].pc \in {"", "done"})
    => (CURRENT_SBOX = <<>> /\ CURRENT_INV_SBOX = <<>>)
       \/ (CURRENT_SBOX # <<>> /\ CURRENT_INV_SBOX = InverseOf(CURRENT_SBOX))

\* C10: a run_analysis request that fails leaves both tables as they were
\* when the request was accepted.
C10_FailedBuildChangesNothing ==
    (th[1].fn = "run_analysis" /\ th[1].pc = "done" /\ th[1].status # 200)
    => <<CURRENT_SBOX, CURRENT_INV_SBOX>> = hist.before

=============================================================================
